---- MODULE Spec2Model ----
(***************************************************************************)
(* Model of the ai_messenger adapter core: sandbox instances               *)
(* (src/src/adapter/runtime/instance.rs), the module loader                *)
(* (runtime/loader.rs), the runtime's instance collection (runtime/mod.rs) *)
(* and the typed wrappers (services/llm.rs, services/storage.rs) that      *)
(* reach the runtime through one tokio RwLock.                             *)
(***************************************************************************)
EXTENDS Integers, Sequences, FiniteSets, TLC

\* ---------------------------------------------------------------- bounds
MaxInst == 2      \* instances ever constructed in one behaviour
MaxChunkLen == 3  \* pieces of text in one stream chunk
MaxMessages == 2  \* messages in one chat request
NumTasks == 2     \* concurrent tasks using the wrappers

\* ------------------------------------------------------ program constants
InitFuel == 1000000   \* instance.rs:50  set_fuel(1_000_000)
CallFuel == 100000    \* instance.rs:80  set_fuel(100_000)
PROVIDER_OFFSET == 2  \* loader.rs:78
VERSION_OFFSET == 3   \* loader.rs:79

Tasks == 1..NumTasks
Ids == 1..MaxInst

\* ------------------------------------------------------------ input sets
Services == {"llm", "storage"}
ConfigProviders == {"ollama"}
ConfigVersions == {"v1"}
DataDirs == {<<"data">>, <<"adapters">>}
FileKinds == {"absent", "garbage", "component"}

\* module paths handed directly to WasmRuntime::load_adapter
DirectPaths ==
    { <<"data", "adapters", "llm", "ollama", "v1", "adapter.wasm">>,
      <<"data", "adapters", "llm", "ollama", "adapter.wasm">>,
      <<"data", "adapters", "llm", "ollama">>,
      <<"data", "adapters", "llm">>,
      <<"data", "llm", "ollama", "v1", "adapter.wasm">>,
      <<"adapters", "adapters", "llm", "ollama", "v1", "adapter.wasm">> }

\* what a configuration can hold: service names (one of them unknown to the
\* registry), providers, and the data directory of the registry
RegServices == {"llm", "storage", "tts"}
RegProviders == {"ollama", "json"}
RegDataDir == <<"data">>
\* what the file system holds at a manifest path
ManifestKinds == {"absent", "malformed", "valid"}

FunctionNames == {"prepare_request", "parse_response", "parse_stream_chunk"}
\* what a caller can pass as `args`: a chat request object, or a JSON string
\* holding a provider response body
BodyKinds == {"body_with_content", "body_without_content", "body_not_json"}
ArgKinds == {"chat_request"} \cup BodyKinds
TransportOutcomes == {"send_failed", "status_not_success", "read_failed"} \cup BodyKinds
ReadOps == {"get_model_info", "store", "retrieve", "delete", "exists", "list_keys"}

\* ------------------------------------------------------------ path helpers
\* position of the first element equal to x, 0 when there is none
RECURSIVE PositionFrom(_, _, _)
PositionFrom(parts, x, i) ==
    IF i > Len(parts) THEN 0
    ELSE IF parts[i] = x THEN i
    ELSE PositionFrom(parts, x, i + 1)

Position(parts, x) == PositionFrom(parts, x, 1)

\* ServiceAdapterConfig::module_path
module_path(cfg, data_dir, service) ==
    data_dir \o <<"adapters", service, cfg.provider, cfg.version, "adapter.wasm">>

\* ModuleLoader::extract_metadata (parts is the path split on '/')
extract_metadata(parts) ==
    LET adapters_index == Position(parts, "adapters")
    IN  IF adapters_index = 0
        THEN [result |-> "InvalidConfig", provider |-> "", version |-> ""]
        ELSE IF adapters_index + PROVIDER_OFFSET > Len(parts)
        THEN [result |-> "InvalidConfig", provider |-> "", version |-> ""]
        ELSE IF adapters_index + VERSION_OFFSET > Len(parts)
        THEN [result |-> "InvalidConfig", provider |-> "", version |-> ""]
        ELSE [result |-> "Ok",
              provider |-> parts[adapters_index + PROVIDER_OFFSET],
              version |-> parts[adapters_index + VERSION_OFFSET]]

\* every segment a provider name can be extracted from
Segments == UNION { {p[i] : i \in 1..Len(p)} : p \in DirectPaths }
              \cup ConfigProviders \cup ConfigVersions \cup Services \cup RegProviders

\* format!("{}_{}", service, provider)
instance_key(service, provider) == service \o "_" \o provider

\* service and provider names that contain the separator of the key
UnderscoreServices == {"llm", "llm_x"}
UnderscoreProviders == {"x_y", "y"}
UnderscorePaths ==
    { <<"data", "adapters", s, p, "v1", "adapter.wasm">> :
         s \in UnderscoreServices, p \in UnderscoreProviders }
UnderscoreKeys ==
    { instance_key(s, p) : s \in UnderscoreServices, p \in UnderscoreProviders }

Keys == { instance_key(s, p) : s \in Services \cup RegServices, p \in Segments }
           \cup UnderscoreKeys

\* ------------------------------------------------------- sandbox instance
NoInst ==
    [life |-> "free", owner |-> "none", fuel_enabled |-> FALSE, fuel |-> 0,
     is_initialized |-> FALSE, is_ready |-> FALSE,
     provider_name |-> "", version |-> ""]

\* WasmInstance::new: a store of the given engine starts with no fuel
WasmInstance_new(fuel_enabled, provider_name, version, owner) ==
    [life |-> "live", owner |-> owner, fuel_enabled |-> fuel_enabled, fuel |-> 0,
     is_initialized |-> FALSE, is_ready |-> FALSE,
     provider_name |-> provider_name, version |-> version]

\* Store::set_fuel fails when the engine was not configured to consume fuel
set_fuel(self, n) ==
    IF self.fuel_enabled
    THEN [ok |-> TRUE, inst |-> [self EXCEPT !.fuel = n]]
    ELSE [ok |-> FALSE, inst |-> self]

\* initialize that marks the instance ready before the fuel is set
initialize_ready_first(self) ==
    LET f == set_fuel(self, InitFuel)
        marked == [self EXCEPT !.is_initialized = TRUE, !.is_ready = TRUE]
    IN  IF ~f.ok
        THEN [result |-> "InitializationFailed", inst |-> marked]
        ELSE [result |-> "Ok",
              inst |-> [f.inst EXCEPT !.is_initialized = TRUE, !.is_ready = TRUE]]

\* WasmInstance::initialize
initialize(self) ==
    LET f == set_fuel(self, InitFuel)
    IN  IF ~f.ok
        THEN [result |-> "InitializationFailed", inst |-> self]
        ELSE [result |-> "Ok",
              inst |-> [f.inst EXCEPT !.is_initialized = TRUE, !.is_ready = TRUE]]

\* WasmInstance::shutdown: consumes the instance and returns Ok(())
WasmInstance_shutdown(self) ==
    [result |-> "Ok", inst |-> [self EXCEPT !.life = "shutdown"]]

\* WasmInstance::is_ready
is_ready(self) == self.is_ready

\* WasmInstance::remaining_fuel: -1 stands for None
remaining_fuel(self) == IF self.fuel_enabled THEN self.fuel ELSE -1

NoValue == [url |-> "null", headers |-> "null", body |-> "null", content |-> "null"]

\* the match on function_name in WasmInstance::call_llm_function
llm_dispatch(function_name, args) ==
    IF function_name = "prepare_request"
    THEN [result |-> "Ok",
          value |-> [url |-> "http://localhost:11434/api/chat",
                     headers |-> "object", body |-> "string", content |-> "null"]]
    ELSE IF function_name = "parse_response"
    THEN IF args = "body_not_json"
         THEN [result |-> "ExecutionError", value |-> NoValue]
         ELSE [result |-> "Ok",
               value |-> [NoValue EXCEPT !.content =
                             IF args = "body_with_content" THEN "reply"
                             ELSE "No content"]]
    ELSE [result |-> "ExecutionError", value |-> NoValue]

\* call_llm_function without the readiness check
call_llm_function_unchecked(self, function_name, args) ==
    LET f == set_fuel(self, CallFuel)
    IN  IF ~f.ok
        THEN [result |-> "ExecutionError", value |-> NoValue, inst |-> self]
        ELSE LET d == llm_dispatch(function_name, args)
             IN  [result |-> d.result, value |-> d.value, inst |-> f.inst]

\* call_llm_function whose unknown-function arm marks the instance not ready
call_llm_function_unknown_poisons(self, function_name, args) ==
    IF ~self.is_ready
    THEN [result |-> "ServiceUnavailable", value |-> NoValue, inst |-> self]
    ELSE LET f == set_fuel(self, CallFuel)
             d == llm_dispatch(function_name, args)
         IN  IF ~f.ok
             THEN [result |-> "ExecutionError", value |-> NoValue, inst |-> self]
             ELSE [result |-> d.result, value |-> d.value,
                   inst |-> IF function_name \notin {"prepare_request", "parse_response"}
                            THEN [f.inst EXCEPT !.is_ready = FALSE]
                            ELSE f.inst]

\* call_llm_function that marks the instance not ready on any execution error
call_llm_function_error_poisons(self, function_name, args) ==
    IF ~self.is_ready
    THEN [result |-> "ServiceUnavailable", value |-> NoValue, inst |-> self]
    ELSE LET f == set_fuel(self, CallFuel)
             d == llm_dispatch(function_name, args)
         IN  IF ~f.ok
             THEN [result |-> "ExecutionError", value |-> NoValue, inst |-> self]
             ELSE [result |-> d.result, value |-> d.value,
                   inst |-> IF d.result # "Ok"
                            THEN [f.inst EXCEPT !.is_ready = FALSE]
                            ELSE f.inst]

\* call_llm_function that does not set the per-call fuel
call_llm_function_no_rearm(self, function_name, args) ==
    IF ~self.is_ready
    THEN [result |-> "ServiceUnavailable", value |-> NoValue, inst |-> self]
    ELSE LET d == llm_dispatch(function_name, args)
         IN  [result |-> d.result, value |-> d.value, inst |-> self]

\* WasmInstance::call_llm_function
call_llm_function(self, function_name, args) ==
    IF ~self.is_ready
    THEN [result |-> "ServiceUnavailable", value |-> NoValue, inst |-> self]
    ELSE LET f == set_fuel(self, CallFuel)
         IN  IF ~f.ok
             THEN [result |-> "ExecutionError", value |-> NoValue, inst |-> self]
             ELSE LET d == llm_dispatch(function_name, args)
                  IN  [result |-> d.result, value |-> d.value, inst |-> f.inst]

\* ------------------------------------------------------------ the loader
\* WasmRuntime::new enables fuel consumption on its engine
RuntimeFuelEnabled == TRUE

\* load_module that reports a missing file as a configuration error
load_module_absent_invalid(module_path_parts, fs, fuel_enabled) ==
    IF fs = "absent"
    THEN [result |-> "InvalidConfig", inst |-> NoInst]
    ELSE IF fs = "garbage"
    THEN [result |-> "InitializationFailed", inst |-> NoInst]
    ELSE LET m == extract_metadata(module_path_parts)
         IN  IF m.result # "Ok"
             THEN [result |-> m.result, inst |-> NoInst]
             ELSE LET i == initialize(WasmInstance_new(fuel_enabled, m.provider,
                                                       m.version, "runtime"))
                  IN  IF i.result # "Ok"
                      THEN [result |-> i.result, inst |-> NoInst]
                      ELSE [result |-> "Ok", inst |-> i.inst]

\* load_module that returns the instance without initializing it
load_module_uninitialized(module_path_parts, fs, fuel_enabled) ==
    IF fs = "absent"
    THEN [result |-> "InitializationFailed", inst |-> NoInst]
    ELSE IF fs = "garbage"
    THEN [result |-> "InitializationFailed", inst |-> NoInst]
    ELSE LET m == extract_metadata(module_path_parts)
         IN  IF m.result # "Ok"
             THEN [result |-> m.result, inst |-> NoInst]
             ELSE [result |-> "Ok",
                   inst |-> WasmInstance_new(fuel_enabled, m.provider,
                                             m.version, "runtime")]

\* ModuleLoader::load_module; fs is what the file system holds at the path
load_module(module_path_parts, fs, fuel_enabled) ==
    IF fs = "absent"
    THEN [result |-> "InitializationFailed", inst |-> NoInst]
    ELSE IF fs = "garbage"
    THEN [result |-> "InitializationFailed", inst |-> NoInst]
    ELSE LET m == extract_metadata(module_path_parts)
         IN  IF m.result # "Ok"
             THEN [result |-> m.result, inst |-> NoInst]
             ELSE LET i == initialize(WasmInstance_new(fuel_enabled, m.provider,
                                                       m.version, "runtime"))
                  IN  IF i.result # "Ok"
                      THEN [result |-> i.result, inst |-> NoInst]
                      ELSE [result |-> "Ok", inst |-> i.inst]

\* ------------------------------------------------------------------ state
VARIABLES
    inst,        \* every WasmInstance ever constructed, by identity
    next_id,     \* identity of the next instance to construct
    instances,   \* WasmRuntime.instances: key -> identity, 0 when absent
    lock,        \* the RwLock around the WasmRuntime
    task,        \* per task: its wrapper and its position in an operation
    last_op,     \* the operation step taken last, with its outcome
    llm_adapters,      \* AdapterRegistry.llm_adapters: provider -> wrapper
    storage_adapters,  \* AdapterRegistry.storage_adapters: provider -> wrapper
    manifests,         \* AdapterRegistry.manifests: provider -> manifest
    reg,         \* position of the registry in initialize_from_config / shutdown
    handler      \* the RwLock around the registry and the message requests

regvars == <<llm_adapters, storage_adapters, manifests, reg>>

vars == <<inst, next_id, instances, lock, task, last_op, regvars, handler>>

NoWrapper == [kind |-> "none", service_name |-> "", provider |-> "", version |-> ""]

IdleTask(w) == [pc |-> "idle", w |-> w, inst |-> 0, body |-> "none", op |-> "none"]

Event(op, t, i, result) ==
    [op |-> op, task |-> t, inst |-> i, result |-> result,
     path |-> <<>>, fs |-> "none", fn |-> "none", value |-> NoValue,
     service |-> "none"]

\* no message request in progress, the registry's lock free
NoHandler ==
    [lock |-> [writer |-> 0, readers |-> {}],
     req |-> [t \in Tasks |-> [pc |-> "idle", prompt |-> 0]]]

NoManifest == [name |-> "", version |-> "", display_name |-> "", models |-> ""]

\* AdapterRegistry::new: three empty maps
NewRegistry ==
    [pc |-> "new", declared |-> <<>>, todo |-> <<>>, done |-> <<>>,
     latest |-> "none", versioned |-> "none", result |-> "none", shut |-> {}]

Init ==
    /\ llm_adapters = [p \in RegProviders |-> NoWrapper]
    /\ storage_adapters = [p \in RegProviders |-> NoWrapper]
    /\ manifests = [p \in RegProviders |-> NoManifest]
    /\ reg = NewRegistry
    /\ handler = NoHandler
    /\ inst = [i \in Ids |-> NoInst]
    /\ next_id = 1
    /\ instances = [k \in Keys |-> 0]
    /\ lock = [writer |-> 0, readers |-> {}]
    /\ task = [t \in Tasks |-> IdleTask(NoWrapper)]
    /\ last_op = Event("new", 0, 0, "Ok")

LockFree == lock.writer = 0 /\ lock.readers = {}

\* WasmRuntime::get_instance / get_instance_mut
get_instance(service, provider) == instances[instance_key(service, provider)]

\* ------------------------------------- a WasmInstance used on its own
\* WasmInstance::new on an engine with or without fuel consumption
NewInstance(fuel_enabled) ==
    /\ next_id <= MaxInst
    /\ inst' = [inst EXCEPT ![next_id] =
                   WasmInstance_new(fuel_enabled, "ollama", "v1", "caller")]
    /\ next_id' = next_id + 1
    /\ last_op' = Event("WasmInstance::new", 0, next_id, "Ok")
    /\ UNCHANGED <<instances, lock, task>>
    /\ UNCHANGED regvars
    /\ UNCHANGED handler

\* initialize() on an instance that was constructed and not yet initialized
Initialize(i) ==
    /\ inst[i].life = "live" /\ inst[i].owner = "caller"
    /\ ~inst[i].is_initialized
    /\ LET r == initialize(inst[i])
       IN  /\ inst' = [inst EXCEPT ![i] = r.inst]
           /\ last_op' = Event("initialize", 0, i, r.result)
    /\ UNCHANGED <<next_id, instances, lock, task>>
    /\ UNCHANGED regvars
    /\ UNCHANGED handler

\* call_llm_function with any function name and argument
CallDirect(i, function_name, args) ==
    /\ inst[i].life = "live" /\ inst[i].owner = "caller"
    /\ LET r == call_llm_function(inst[i], function_name, args)
       IN  /\ inst' = [inst EXCEPT ![i] = r.inst]
           /\ last_op' = [Event("call_llm_function", 0, i, r.result)
                            EXCEPT !.fn = function_name, !.value = r.value]
    /\ UNCHANGED <<next_id, instances, lock, task>>
    /\ UNCHANGED regvars
    /\ UNCHANGED handler

\* WasmInstance::shutdown consumes the instance
ShutdownInstance(i) ==
    /\ inst[i].life = "live" /\ inst[i].owner = "caller"
    /\ inst' = [inst EXCEPT ![i] = WasmInstance_shutdown(inst[i]).inst]
    /\ last_op' = Event("WasmInstance::shutdown", 0, i, "Ok")
    /\ UNCHANGED <<next_id, instances, lock, task>>
    /\ UNCHANGED regvars
    /\ UNCHANGED handler

\* ------------------------------------------------------------ the runtime
\* load_adapter that keeps an instance already stored under the key
load_adapter_keeps_first(service, module_path_parts, fs) ==
    LET r == load_module(module_path_parts, fs, RuntimeFuelEnabled)
        key == instance_key(service, r.inst.provider_name)
        old == instances[key]
    IN  IF r.result # "Ok"
        THEN [result |-> r.result, id |-> 0, inst |-> inst, instances |-> instances]
        ELSE [result |-> "Ok", id |-> next_id,
              inst |-> [i \in Ids |->
                          IF i = next_id
                          THEN IF old = 0 THEN r.inst
                               ELSE [r.inst EXCEPT !.life = "dropped"]
                          ELSE inst[i]],
              instances |-> IF old = 0 THEN [instances EXCEPT ![key] = next_id]
                            ELSE instances]

\* WasmRuntime::load_adapter: the state of inst and instances after the call
load_adapter(service, module_path_parts, fs) ==
    LET r == load_module(module_path_parts, fs, RuntimeFuelEnabled)
        key == instance_key(service, r.inst.provider_name)
        old == instances[key]
    IN  IF r.result # "Ok"
        THEN [result |-> r.result, id |-> 0, inst |-> inst, instances |-> instances]
        ELSE [result |-> "Ok", id |-> next_id,
              inst |-> [i \in Ids |->
                          IF i = next_id THEN r.inst
                          ELSE IF i = old THEN [inst[i] EXCEPT !.life = "dropped"]
                          ELSE inst[i]],
              instances |-> [instances EXCEPT ![key] = next_id]]

\* load_adapter called on the runtime with exclusive access
LoadAdapter(service, module_path_parts, fs) ==
    /\ LockFree
    /\ next_id <= MaxInst
    /\ LET r == load_adapter(service, module_path_parts, fs)
       IN  /\ inst' = r.inst
           /\ instances' = r.instances
           /\ next_id' = IF r.result = "Ok" THEN next_id + 1 ELSE next_id
           /\ last_op' = [Event("load_adapter", 0, r.id, r.result)
                            EXCEPT !.path = module_path_parts, !.fs = fs,
                                   !.service = service]
    /\ UNCHANGED <<lock, task>>
    /\ UNCHANGED regvars
    /\ UNCHANGED handler

\* LlmAdapterWrapper::new / StorageAdapterWrapper::new, called as the
\* registry calls them: with the service's own name
WrapperNew(t, kind, cfg, data_dir, fs) ==
    /\ task[t].pc = "idle"
    /\ LockFree
    /\ next_id <= MaxInst
    /\ LET p == module_path(cfg, data_dir, kind)
           r == load_adapter(kind, p, fs)
       IN  /\ inst' = r.inst
           /\ instances' = r.instances
           /\ next_id' = IF r.result = "Ok" THEN next_id + 1 ELSE next_id
           /\ task' = IF r.result = "Ok"
                      THEN [task EXCEPT ![t].w =
                               [kind |-> kind, service_name |-> kind,
                                provider |-> cfg.provider, version |-> cfg.version]]
                      ELSE task
           /\ last_op' = [Event("wrapper_new", t, r.id, r.result)
                            EXCEPT !.path = p, !.fs = fs, !.service = kind]
    /\ UNCHANGED lock
    /\ UNCHANGED regvars
    /\ UNCHANGED handler

\* a shutdown that iterates over the collection without draining it
runtime_shutdown_keeps_map ==
    [result |-> "Ok",
     inst |-> [i \in Ids |->
                 IF \E k \in Keys : instances[k] = i
                 THEN WasmInstance_shutdown(inst[i]).inst ELSE inst[i]],
     instances |-> instances]

\* WasmRuntime::shutdown: the collection is drained and every drained
\* instance is shut down (`?` would leave the loop at the first Err, and
\* WasmInstance::shutdown returns none)
runtime_shutdown ==
    [result |-> "Ok",
     inst |-> [i \in Ids |->
                 IF \E k \in Keys : instances[k] = i
                 THEN WasmInstance_shutdown(inst[i]).inst ELSE inst[i]],
     instances |-> [k \in Keys |-> 0]]

\* WasmRuntime::shutdown under the write lock (AdapterRegistry::shutdown)
RuntimeShutdown ==
    /\ LockFree
    /\ inst' = runtime_shutdown.inst
    /\ instances' = runtime_shutdown.instances
    /\ last_op' = Event("runtime_shutdown", 0, 0, runtime_shutdown.result)
    /\ UNCHANGED <<next_id, lock, task>>
    /\ UNCHANGED regvars
    /\ UNCHANGED handler

\* get_instance_mut followed by call_llm_function, with exclusive access
CallRuntime(key, function_name, args) ==
    /\ LockFree
    /\ instances[key] # 0
    /\ LET id == instances[key]
           r == call_llm_function(inst[id], function_name, args)
       IN  /\ inst' = [inst EXCEPT ![id] = r.inst]
           /\ last_op' = [Event("call_llm_function", 0, id, r.result)
                            EXCEPT !.fn = function_name, !.value = r.value]
    /\ UNCHANGED <<next_id, instances, lock, task>>
    /\ UNCHANGED regvars
    /\ UNCHANGED handler

\* ------------------------------------------------------------ the RwLock
\* a write() that does not wait for another writer
CanWrite_ignores_writer(t) == lock.readers = {}

\* RwLock::write().await returns only when no guard is held
CanWrite(t) == lock.writer = 0 /\ lock.readers = {}

\* a read() that does not wait for the writer
CanRead_ignores_writer(t) == TRUE

\* RwLock::read().await returns only when no write guard is held
CanRead(t) == lock.writer = 0

\* the guard kept across the HTTP request
release_before_transport_kept(l) == l

\* drop(runtime_guard) ahead of the HTTP request
release_before_transport(l) == [l EXCEPT !.writer = 0]

\* --------------------------------------- LlmAdapterWrapper::send_message
\* llm.rs:75-83: take the write guard and look the instance up
SmBegin(t) ==
    /\ task[t].pc = "idle"
    /\ task[t].w.kind = "llm"
    /\ CanWrite(t)
    /\ LET id == get_instance(task[t].w.service_name, task[t].w.provider)
       IN  IF id = 0
           THEN /\ last_op' = Event("send_message", t, 0, "ServiceUnavailable")
                /\ UNCHANGED <<lock, task>>
           ELSE /\ lock' = [lock EXCEPT !.writer = t]
                /\ task' = [task EXCEPT ![t].pc = "sm_preparing", ![t].inst = id]
                /\ last_op' = Event("sm_prepare_call", t, id, "Pending")
    /\ UNCHANGED <<inst, next_id, instances>>
    /\ UNCHANGED regvars
    /\ UNCHANGED handler

\* llm.rs:97-115: prepare_request returns, the descriptor is taken apart and
\* the guard is dropped (on an error the guard is dropped by the return)
SmPrepared(t) ==
    /\ task[t].pc = "sm_preparing"
    /\ LET id == task[t].inst
           r == call_llm_function(inst[id], "prepare_request", "chat_request")
           bad == \/ r.value.url = "null"
                  \/ r.value.headers # "object"
                  \/ r.value.body = "null"
       IN  /\ inst' = [inst EXCEPT ![id] = r.inst]
           /\ IF r.result # "Ok" \/ bad
              THEN /\ lock' = [lock EXCEPT !.writer = 0]
                   /\ task' = [task EXCEPT ![t] = IdleTask(task[t].w)]
                   /\ last_op' = [Event("send_message", t, id,
                                        IF r.result # "Ok" THEN r.result
                                        ELSE "ExecutionError")
                                    EXCEPT !.fn = "prepare_request"]
              ELSE /\ lock' = release_before_transport(lock)
                   /\ task' = [task EXCEPT ![t].pc = "sm_transport", ![t].inst = 0]
                   /\ last_op' = [Event("sm_prepared", t, id, "Ok")
                                    EXCEPT !.fn = "prepare_request", !.value = r.value]
    /\ UNCHANGED <<next_id, instances>>
    /\ UNCHANGED regvars
    /\ UNCHANGED handler

\* an HTTP exchange that is sent again after a failure
SmTransport_retries(t, outcome) ==
    /\ task[t].pc = "sm_transport"
    /\ IF outcome \in BodyKinds
       THEN /\ task' = [task EXCEPT ![t].pc = "sm_wait_parse", ![t].body = outcome]
            /\ last_op' = Event("sm_transport", t, 0, "Ok")
       ELSE /\ task' = task
            /\ last_op' = Event("sm_transport", t, 0, "ServiceUnavailable")
    /\ UNCHANGED <<inst, next_id, instances, lock>>
    /\ UNCHANGED regvars
    /\ UNCHANGED handler

\* llm.rs:118-143: the HTTP exchange and its three failure exits
SmTransport(t, outcome) ==
    /\ task[t].pc = "sm_transport"
    /\ IF outcome \in BodyKinds
       THEN /\ task' = [task EXCEPT ![t].pc = "sm_wait_parse", ![t].body = outcome]
            /\ last_op' = Event("sm_transport", t, 0, "Ok")
       ELSE /\ task' = [task EXCEPT ![t] = IdleTask(task[t].w)]
            /\ last_op' = Event("send_message", t, 0, "ServiceUnavailable")
    /\ UNCHANGED <<inst, next_id, instances, lock>>
    /\ UNCHANGED regvars
    /\ UNCHANGED handler

\* a second lookup whose miss is not reported
SmParseBegin_miss_ignored(t) ==
    /\ task[t].pc = "sm_wait_parse"
    /\ CanWrite(t)
    /\ LET id == get_instance(task[t].w.service_name, task[t].w.provider)
       IN  IF id = 0
           THEN /\ task' = [task EXCEPT ![t] = IdleTask(task[t].w)]
                /\ last_op' = Event("send_message", t, 0, "Ok")
                /\ UNCHANGED lock
           ELSE /\ lock' = [lock EXCEPT !.writer = t]
                /\ task' = [task EXCEPT ![t].pc = "sm_parsing", ![t].inst = id]
                /\ last_op' = Event("sm_parse_call", t, id, "Pending")
    /\ UNCHANGED <<inst, next_id, instances>>
    /\ UNCHANGED regvars
    /\ UNCHANGED handler

\* llm.rs:146-154: take the write guard again and look the instance up again
SmParseBegin(t) ==
    /\ task[t].pc = "sm_wait_parse"
    /\ CanWrite(t)
    /\ LET id == get_instance(task[t].w.service_name, task[t].w.provider)
       IN  IF id = 0
           THEN /\ task' = [task EXCEPT ![t] = IdleTask(task[t].w)]
                /\ last_op' = Event("send_message", t, 0, "ServiceUnavailable")
                /\ UNCHANGED lock
           ELSE /\ lock' = [lock EXCEPT !.writer = t]
                /\ task' = [task EXCEPT ![t].pc = "sm_parsing", ![t].inst = id]
                /\ last_op' = Event("sm_parse_call", t, id, "Pending")
    /\ UNCHANGED <<inst, next_id, instances>>
    /\ UNCHANGED regvars
    /\ UNCHANGED handler

\* llm.rs:156-171: parse_response returns and the content is extracted
SmParsed(t) ==
    /\ task[t].pc = "sm_parsing"
    /\ LET id == task[t].inst
           r == call_llm_function(inst[id], "parse_response", task[t].body)
       IN  /\ inst' = [inst EXCEPT ![id] = r.inst]
           /\ last_op' = [Event("send_message", t, id,
                                IF r.result # "Ok" THEN r.result
                                ELSE IF r.value.content = "null" THEN "ExecutionError"
                                ELSE "Ok")
                            EXCEPT !.fn = "parse_response", !.value = r.value]
    /\ lock' = [lock EXCEPT !.writer = 0]
    /\ task' = [task EXCEPT ![t] = IdleTask(task[t].w)]
    /\ UNCHANGED <<next_id, instances>>
    /\ UNCHANGED regvars
    /\ UNCHANGED handler

\* LlmAdapterWrapper::is_ready / StorageAdapterWrapper::is_ready
wrapper_is_ready(w) == TRUE

\* ------------- get_model_info and the StorageAdapter operations (read guard)
\* the operations a wrapper of the given kind offers under a read guard
OpsOf(kind) ==
    IF kind = "llm" THEN {"get_model_info"}
    ELSE IF kind = "storage" THEN ReadOps \ {"get_model_info"}
    ELSE {}

\* self.runtime.read().await
RdBegin(t, op) ==
    /\ task[t].pc = "idle"
    /\ op \in OpsOf(task[t].w.kind)
    /\ CanRead(t)
    /\ lock' = [lock EXCEPT !.readers = @ \cup {t}]
    /\ task' = [task EXCEPT ![t].pc = "rd_holding", ![t].op = op]
    /\ last_op' = Event(op, t, 0, "Pending")
    /\ UNCHANGED <<inst, next_id, instances>>
    /\ UNCHANGED regvars
    /\ UNCHANGED handler

\* an operation body that returns its placeholder without looking the
\* instance up
read_op_result_no_lookup(w) == "Ok"

\* the body of the operation: lookup, readiness check, placeholder result
read_op_result(w) ==
    LET id == get_instance(w.service_name, w.provider)
    IN  IF id = 0 THEN "ServiceUnavailable"
        ELSE IF ~is_ready(inst[id]) THEN "ServiceUnavailable"
        ELSE "Ok"

RdEnd(t) ==
    /\ task[t].pc = "rd_holding"
    /\ lock' = [lock EXCEPT !.readers = @ \ {t}]
    /\ task' = [task EXCEPT ![t] = IdleTask(task[t].w)]
    /\ last_op' = Event(task[t].op, t,
                        get_instance(task[t].w.service_name, task[t].w.provider),
                        read_op_result(task[t].w))
    /\ UNCHANGED <<inst, next_id, instances>>
    /\ UNCHANGED regvars
    /\ UNCHANGED handler

\* ---------------------------------------------------------------- registry
\* a configuration: the services in the order the file declares them, each
\* service name at most once (a table keyed by service name)
RegConfigs ==
    UNION { { c \in [1..n -> [service : RegServices, provider : RegProviders,
                              version : ConfigVersions]] :
                \A i, j \in 1..n : i # j => c[i].service # c[j].service } :
            n \in 0..Cardinality(RegServices) }

\* the orders in which a HashMap of n entries can be iterated
IterationOrders(n) ==
    { o \in [1..n -> 1..n] : \A i, j \in 1..n : i # j => o[i] # o[j] }

\* what a well-formed manifest.json holds at the latest path
LatestFile(provider) ==
    [name |-> provider, version |-> "latest", display_name |-> "Latest",
     models |-> "some"]

\* what a well-formed manifest.json holds at the version-pinned path
VersionedFile(provider, version) ==
    [name |-> provider, version |-> version, display_name |-> "Pinned",
     models |-> "some"]

\* AdapterManifest::default_from_config
default_from_config(provider, version) ==
    [name |-> provider, version |-> version, display_name |-> "None",
     models |-> "None"]

\* AdapterRegistry::load_manifest_from_path; kind is what the path holds
load_manifest_from_path(kind, content) ==
    IF kind = "valid"
    THEN [result |-> "Ok", manifest |-> content]
    ELSE [result |-> "InvalidConfig", manifest |-> NoManifest]

\* AdapterRegistry::load_manifest_if_available: the manifests map afterwards
load_manifest_if_available(service_config, latest, versioned) ==
    LET manifest ==
            IF latest # "absent"
            THEN LET r == load_manifest_from_path(
                              latest, LatestFile(service_config.provider))
                 IN  IF r.result = "Ok" THEN r.manifest ELSE NoManifest
            ELSE IF versioned # "absent"
            THEN LET r == load_manifest_from_path(
                              versioned,
                              VersionedFile(service_config.provider,
                                            service_config.version))
                 IN  IF r.result = "Ok" THEN r.manifest ELSE NoManifest
            ELSE NoManifest
        final_manifest ==
            IF manifest = NoManifest
            THEN default_from_config(service_config.provider,
                                     service_config.version)
            ELSE manifest
    IN  [manifests EXCEPT ![service_config.provider] = final_manifest]

\* AdapterRegistry::get_manifest
get_manifest(provider) ==
    IF provider \in DOMAIN manifests THEN manifests[provider] ELSE NoManifest

\* AdapterRegistry::get_llm_adapter
get_llm_adapter(provider) ==
    IF provider \in DOMAIN llm_adapters THEN llm_adapters[provider] ELSE NoWrapper

\* AdapterRegistry::get_storage_adapter
get_storage_adapter(provider) ==
    IF provider \in DOMAIN storage_adapters
    THEN storage_adapters[provider] ELSE NoWrapper

\* a match in which an unknown service name takes the storage arm
service_arm_unknown_is_storage(service_name) ==
    IF service_name = "llm" THEN "llm" ELSE "storage"

\* the arm of `match service_name.as_str()` in initialize_from_config
service_arm(service_name) ==
    IF service_name = "llm" THEN "llm"
    ELSE IF service_name = "storage" THEN "storage"
    ELSE "unknown"

\* a constructed wrapper that is not put into the map
insert_adapter_dropped(adapters, provider, adapter) == adapters

\* self.llm_adapters.insert / self.storage_adapters.insert
insert_adapter(adapters, provider, adapter) ==
    [adapters EXCEPT ![provider] = adapter]

\* a loop that logs a constructor's error and goes on
after_service_isolated(result, rest) ==
    IF rest = <<>> THEN "ready" ELSE "init"

\* where initialize_from_config stands after one service: `?` returns the
\* constructor's error, the end of the iteration returns Ok(())
after_service(result, rest) ==
    IF result # "Ok" THEN "failed"
    ELSE IF rest = <<>> THEN "ready" ELSE "init"

\* initialize_from_config called on the registry startup has just created:
\* the iteration over config.adapters.services begins, in the map's order
InitializeBegin(declared, order) ==
    /\ reg.pc = "new"
    /\ LockFree
    /\ reg' = [reg EXCEPT
                 !.pc = after_service("Ok", declared),
                 !.declared = declared,
                 !.todo = [i \in 1..Len(declared) |-> declared[order[i]]],
                 !.result = IF declared = <<>> THEN "Ok" ELSE "none"]
    /\ last_op' = Event("initialize_from_config", 0, 0, "none")
    /\ UNCHANGED <<inst, next_id, instances, lock, task>>
    /\ UNCHANGED <<llm_adapters, storage_adapters, manifests>>
    /\ UNCHANGED handler

\* one iteration of the loop of initialize_from_config: the manifest is
\* resolved, then the wrapper of the service is constructed (which loads the
\* module into the runtime) and registered
InitializeService(latest, versioned, fs) ==
    /\ reg.pc = "init"
    /\ LockFree
    /\ LET service_config == Head(reg.todo)
           service_name == service_config.service
           rest == Tail(reg.todo)
           arm == service_arm(service_name)
           p == module_path(service_config, RegDataDir, service_name)
           r == IF arm = "unknown"
                THEN [result |-> "Ok", id |-> 0, inst |-> inst,
                      instances |-> instances]
                ELSE load_adapter(service_name, p, fs)
           adapter == [kind |-> arm, service_name |-> service_name,
                       provider |-> service_config.provider,
                       version |-> service_config.version]
       IN  /\ arm # "unknown" => next_id <= MaxInst
           /\ manifests' = load_manifest_if_available(service_config, latest,
                                                      versioned)
           /\ inst' = r.inst
           /\ instances' = r.instances
           /\ next_id' = IF r.id # 0 THEN next_id + 1 ELSE next_id
           /\ llm_adapters' =
                 IF arm = "llm" /\ r.result = "Ok"
                 THEN insert_adapter(llm_adapters, service_config.provider, adapter)
                 ELSE llm_adapters
           /\ storage_adapters' =
                 IF arm = "storage" /\ r.result = "Ok"
                 THEN insert_adapter(storage_adapters, service_config.provider,
                                     adapter)
                 ELSE storage_adapters
           /\ reg' = [reg EXCEPT
                        !.pc = after_service(r.result, rest),
                        !.todo = IF r.result = "Ok" THEN rest ELSE reg.todo,
                        !.done = Append(reg.done, service_name),
                        !.latest = latest,
                        !.versioned = versioned,
                        !.result = IF r.result # "Ok" THEN r.result
                                   ELSE IF rest = <<>> THEN "Ok" ELSE "none"]
           /\ last_op' = [Event("initialize_service", 0, r.id, r.result)
                            EXCEPT !.path = p, !.service = service_name,
                                   !.fs = IF arm = "unknown" THEN "none" ELSE fs]
    /\ UNCHANGED <<lock, task>>
    /\ UNCHANGED handler

\* a loop over the wrappers that leaves them in the map
drain_keeps(adapters) ==
    [shut |-> {p \in RegProviders : adapters[p] # NoWrapper}, map |-> adapters]

\* `for (_, mut adapter) in adapters.drain() { adapter.shutdown().await?; }`:
\* every wrapper leaves the map and is shut down (the wrappers' shutdown
\* returns no Err)
drain(adapters) ==
    [shut |-> {p \in RegProviders : adapters[p] # NoWrapper},
     map |-> [p \in RegProviders |-> NoWrapper]]

\* AdapterRegistry::shutdown, first loop
ShutdownLlmAdapters ==
    /\ reg.pc \in {"new", "ready", "failed"}
    /\ LET d == drain(llm_adapters)
       IN  /\ llm_adapters' = d.map
           /\ reg' = [reg EXCEPT !.pc = "shutdown_storage",
                                 !.shut = @ \cup {<<"llm", p>> : p \in d.shut}]
    /\ last_op' = Event("shutdown_llm_adapters", 0, 0, "Ok")
    /\ UNCHANGED <<inst, next_id, instances, lock, task>>
    /\ UNCHANGED <<storage_adapters, manifests>>
    /\ UNCHANGED handler

\* AdapterRegistry::shutdown, second loop
ShutdownStorageAdapters ==
    /\ reg.pc = "shutdown_storage"
    /\ LET d == drain(storage_adapters)
       IN  /\ storage_adapters' = d.map
           /\ reg' = [reg EXCEPT !.pc = "shutdown_runtime",
                                 !.shut = @ \cup {<<"storage", p>> : p \in d.shut}]
    /\ last_op' = Event("shutdown_storage_adapters", 0, 0, "Ok")
    /\ UNCHANGED <<inst, next_id, instances, lock, task>>
    /\ UNCHANGED <<llm_adapters, manifests>>
    /\ UNCHANGED handler

\* AdapterRegistry::shutdown, the runtime under its write lock
ShutdownRuntime ==
    /\ reg.pc = "shutdown_runtime"
    /\ LockFree
    /\ inst' = runtime_shutdown.inst
    /\ instances' = runtime_shutdown.instances
    /\ reg' = [reg EXCEPT !.pc = "down", !.result = runtime_shutdown.result]
    /\ last_op' = Event("runtime_shutdown", 0, 0, runtime_shutdown.result)
    /\ UNCHANGED <<next_id, lock, task>>
    /\ UNCHANGED <<llm_adapters, storage_adapters, manifests>>
    /\ UNCHANGED handler

\* ------------------------------------------------- the Ollama module
\* a u32 as two 16-bit halves
Half == 65536
U32(hi, lo) == [hi |-> hi, lo |-> lo]
U32Zero == U32(0, 0)
U32Max == U32(Half - 1, Half - 1)

\* the sum of two u32 as an integer of 33 bits: carry, high half, low half
u32_sum(a, b) ==
    LET lo == a.lo + b.lo
        hi == a.hi + b.hi + (lo \div Half)
    IN  [carry |-> hi \div Half, hi |-> hi % Half, lo |-> lo % Half]

\* `a + b` on u32: with overflow checks compiled in (debug profile) a sum out
\* of range panics, without them (release profile) it wraps
u32_add(a, b, overflow_checks) ==
    LET sum == u32_sum(a, b)
    IN  IF sum.carry = 0 THEN [panic |-> FALSE, value |-> U32(sum.hi, sum.lo)]
        ELSE IF overflow_checks THEN [panic |-> TRUE, value |-> U32Zero]
        ELSE [panic |-> FALSE, value |-> U32(sum.hi, sum.lo)]

\* a count field of a provider response: left out, a number that fits u32,
\* or a number that does not
JsonCounts ==
    { [kind |-> "absent", n |-> U32Zero], [kind |-> "out_of_range", n |-> U32Zero] }
       \cup { [kind |-> "u32", n |-> n] :
                 n \in {U32Zero, U32(0, 1), U32Max} }

\* the JSON object of a provider response or stream chunk, by its fields
Payloads ==
    [model : BOOLEAN, message : {"absent", "content"},
     done : {"absent", "true", "false"},
     prompt_eval_count : JsonCounts, eval_count : JsonCounts]

DefaultPayload ==
    [model |-> TRUE, message |-> "content", done |-> "false",
     prompt_eval_count |-> [kind |-> "absent", n |-> U32Zero],
     eval_count |-> [kind |-> "absent", n |-> U32Zero]]

\* text as a sequence of pieces: whitespace characters, one complete JSON
\* object, any other character
Whitespace == {" ", "\n"}
Pieces == Whitespace \cup {"json", "x"}
Texts == UNION { [1..n -> Pieces] : n \in 0..MaxChunkLen }

\* str::trim_start
RECURSIVE trim_start(_)
trim_start(text) ==
    IF text # <<>> /\ Head(text) \in Whitespace THEN trim_start(Tail(text))
    ELSE text

\* str::trim_end
RECURSIVE trim_end(_)
trim_end(text) ==
    IF text # <<>> /\ text[Len(text)] \in Whitespace
    THEN trim_end(SubSeq(text, 1, Len(text) - 1))
    ELSE text

\* str::trim
trim(text) == trim_end(trim_start(text))

\* serde_json::from_str on a text reaches the object exactly when the text is
\* one JSON value with nothing but whitespace around it
IsOneJsonValue(text) ==
    SelectSeq(text, LAMBDA c : c \notin Whitespace) = <<"json">>

\* #[derive(Deserialize)] struct OllamaChatResponse: model and message are
\* required, the counts are Option<u32> with a default
deserialize_chat_response(text, payload) ==
    /\ IsOneJsonValue(text)
    /\ payload.model
    /\ payload.message = "content"
    /\ payload.prompt_eval_count.kind # "out_of_range"
    /\ payload.eval_count.kind # "out_of_range"

\* #[derive(Deserialize)] struct OllamaStreamChunk: as the response, and done
\* is required
deserialize_stream_chunk(text, payload) ==
    /\ deserialize_chat_response(text, payload)
    /\ payload.done # "absent"

NoUsage ==
    [present |-> FALSE, prompt_tokens |-> U32Zero, completion_tokens |-> U32Zero,
     total_tokens |-> U32Zero]

\* prompt_eval_count.map(|prompt_tokens| Usage { .. }), lib.rs:74-80, 98-102
usage_of(payload, overflow_checks) ==
    IF payload.prompt_eval_count.kind # "u32"
    THEN [panic |-> FALSE, usage |-> NoUsage]
    ELSE LET prompt_tokens == payload.prompt_eval_count.n
             completion_tokens ==
                 IF payload.eval_count.kind = "u32" THEN payload.eval_count.n
                 ELSE U32Zero
             total == u32_add(prompt_tokens, completion_tokens, overflow_checks)
         IN  [panic |-> total.panic,
              usage |-> IF total.panic THEN NoUsage
                        ELSE [present |-> TRUE, prompt_tokens |-> prompt_tokens,
                              completion_tokens |-> completion_tokens,
                              total_tokens |-> total.value]]

NoChunk ==
    [sequence |-> 0, content |-> "none", is_final |-> FALSE, usage |-> NoUsage,
     finish_reason |-> "None"]

\* OllamaAdapter::parse_response
parse_response(status_code, body, payload, overflow_checks) ==
    IF status_code # 200
    THEN [result |-> "Err", usage |-> NoUsage, finish_reason |-> "None"]
    ELSE IF ~deserialize_chat_response(body, payload)
    THEN [result |-> "Err", usage |-> NoUsage, finish_reason |-> "None"]
    ELSE LET u == usage_of(payload, overflow_checks)
         IN  IF u.panic
             THEN [result |-> "Panic", usage |-> NoUsage, finish_reason |-> "None"]
             ELSE [result |-> "Ok", usage |-> u.usage, finish_reason |-> "Stop"]

\* parse_stream_chunk that reports usage on every chunk that carries counts
parse_stream_chunk_usage_always(chunk, payload, overflow_checks) ==
    IF trim(chunk) = <<>>
    THEN [result |-> "None", chunk |-> NoChunk]
    ELSE IF ~deserialize_stream_chunk(chunk, payload)
    THEN [result |-> "Err", chunk |-> NoChunk]
    ELSE LET done == payload.done = "true"
             u == usage_of(payload, overflow_checks)
         IN  IF u.panic
             THEN [result |-> "Panic", chunk |-> NoChunk]
             ELSE [result |-> "Some",
                   chunk |-> [sequence |-> 0, content |-> "content",
                              is_final |-> done, usage |-> u.usage,
                              finish_reason |-> IF done THEN "Stop" ELSE "None"]]

\* parse_stream_chunk that tests the chunk for emptiness without trimming it
parse_stream_chunk_untrimmed(chunk, payload, overflow_checks) ==
    IF chunk = <<>>
    THEN [result |-> "None", chunk |-> NoChunk]
    ELSE IF ~deserialize_stream_chunk(chunk, payload)
    THEN [result |-> "Err", chunk |-> NoChunk]
    ELSE LET done == payload.done = "true"
             u == IF done THEN usage_of(payload, overflow_checks)
                  ELSE [panic |-> FALSE, usage |-> NoUsage]
         IN  IF u.panic
             THEN [result |-> "Panic", chunk |-> NoChunk]
             ELSE [result |-> "Some",
                   chunk |-> [sequence |-> 0, content |-> "content",
                              is_final |-> done, usage |-> u.usage,
                              finish_reason |-> IF done THEN "Stop" ELSE "None"]]

\* OllamaAdapter::parse_stream_chunk
parse_stream_chunk(chunk, payload, overflow_checks) ==
    IF trim(chunk) = <<>>
    THEN [result |-> "None", chunk |-> NoChunk]
    ELSE IF ~deserialize_stream_chunk(chunk, payload)
    THEN [result |-> "Err", chunk |-> NoChunk]
    ELSE LET done == payload.done = "true"
             u == IF done THEN usage_of(payload, overflow_checks)
                  ELSE [panic |-> FALSE, usage |-> NoUsage]
         IN  IF u.panic
             THEN [result |-> "Panic", chunk |-> NoChunk]
             ELSE [result |-> "Some",
                   chunk |-> [sequence |-> 0, content |-> "content",
                              is_final |-> done, usage |-> u.usage,
                              finish_reason |-> IF done THEN "Stop" ELSE "None"]]

\* the payloads a text can carry: only a text with a JSON object has one
PayloadsOf(text) ==
    IF \E i \in 1..Len(text) : text[i] = "json" THEN Payloads ELSE {DefaultPayload}

\* the statuses a transport result can carry
StatusCodes == {200, 201, 404}

\* http::StatusCode::is_success, the host's test of the transport status
is_success(status_code) == 200 <= status_code /\ status_code < 300

\* an input of the module's parsing functions: a transport result or a chunk
\* of the stream, and the profile the module was built with
OllamaInputs ==
    UNION { [op : {"ollama_input"}, fn : {"parse_response", "parse_stream_chunk"},
             status_code : StatusCodes, text : {text}, payload : PayloadsOf(text),
             overflow_checks : BOOLEAN, result : {"none"}, usage : {NoUsage},
             chunk : {NoChunk}] : text \in Texts }

\* the module's parse_response applied to a transport result
ParseResponse ==
    /\ last_op.op = "ollama_input" /\ last_op.fn = "parse_response"
    /\ LET r == parse_response(last_op.status_code, last_op.text, last_op.payload,
                               last_op.overflow_checks)
       IN  last_op' = [last_op EXCEPT !.op = "ollama_parse_response",
                                      !.result = r.result, !.usage = r.usage]
    /\ UNCHANGED <<inst, next_id, instances, lock, task>>
    /\ UNCHANGED regvars
    /\ UNCHANGED handler

\* the module's parse_stream_chunk applied to a chunk of the stream
ParseStreamChunk ==
    /\ last_op.op = "ollama_input" /\ last_op.fn = "parse_stream_chunk"
    /\ last_op.status_code = 200
    /\ LET r == parse_stream_chunk(last_op.text, last_op.payload,
                                   last_op.overflow_checks)
       IN  last_op' = [last_op EXCEPT !.op = "ollama_parse_stream_chunk",
                                      !.result = r.result, !.usage = r.chunk.usage,
                                      !.chunk = r.chunk]
    /\ UNCHANGED <<inst, next_id, instances, lock, task>>
    /\ UNCHANGED regvars
    /\ UNCHANGED handler

\* --------------------------------------------------------- prepare_request
\* the chat requests handed to prepare_request: a model, role-tagged messages,
\* and optionally a sampling option, the streaming flag and provider_params
Roles == {"User", "System"}

Models == {"qwen2.5:7b-instruct", "llama3"}

MessageSeqs ==
    UNION { [1..n -> [role : Roles, content : {"hello"}]] : n \in 0..MaxMessages }

ChatRequests ==
    [model : Models, messages : MessageSeqs, temperature : {"none", "0.7"},
     enable_streaming : {"none", "false", "true"},
     provider_params : {"none", "base_url"}]

role_to_string(role) ==
    CASE role = "System" -> "system"
      [] role = "User" -> "user"
      [] role = "Assistant" -> "assistant"
      [] role = "Function" -> "function"
      [] role = "Tool" -> "tool"
      [] OTHER -> role

\* the temperature is the only sampling option the inputs carry; top_p,
\* num_predict, stop and seed are inserted the same way
build_ollama_options(request) ==
    IF request.temperature = "none" THEN <<>>
    ELSE <<"temperature", request.temperature>>

\* a JSON text is modelled by the sequence of its tokens
RECURSIVE serialize_all(_, _)
serialize_all(elements, i) ==
    IF i > Len(elements) THEN <<>>
    ELSE elements[i] \o serialize_all(elements, i + 1)

\* OllamaMessage is a struct: its fields are written in declaration order
serialize_ollama_message(m) ==
    <<"{", "role", role_to_string(m.role), "content", m.content, "}">>

\* the host gets the messages as a JSON value whose role is the tag's string;
\* an object of serde_json is written in the order of its map: insertion order
\* with the preserve_order feature, key order without it
serialize_value_message(m, preserve_order) ==
    IF preserve_order
    THEN <<"{", "role", role_to_string(m.role), "content", m.content, "}">>
    ELSE <<"{", "content", m.content, "role", role_to_string(m.role), "}">>

\* serde_json::to_string(&OllamaChatRequest): options is skipped when empty,
\* stream when false
serialize_chat_request(model, messages, options, stream) ==
    LET elements == [i \in 1..Len(messages) |-> serialize_ollama_message(messages[i])]
    IN  <<"{", "model", model, "messages", "[">>
        \o serialize_all(elements, 1) \o <<"]">>
        \o (IF options = <<>> THEN <<>> ELSE <<"options", "{">> \o options \o <<"}">>)
        \o (IF stream THEN <<"stream", "true">> ELSE <<>>)
        \o <<"}">>

\* the module's prepare_request
prepare_request(request) ==
    LET body == serialize_chat_request(request.model, request.messages,
                                       build_ollama_options(request),
                                       request.enable_streaming = "true")
        base_url == IF request.provider_params = "base_url"
                    THEN "http://ollama.example:11434"
                    ELSE "http://localhost:11434"
    IN  [url |-> <<base_url, "/api/chat">>,
         headers |-> << <<"Content-Type", "application/json">>,
                        <<"Accept", "application/json">> >>,
         body |-> body]

\* the prepare_request arm of the host's call_llm_function: json!({"model",
\* "messages", "stream": false}).to_string() under a fixed URL and one header
host_prepare_request(request, preserve_order) ==
    LET elements == [i \in 1..Len(request.messages) |->
                        serialize_value_message(request.messages[i], preserve_order)]
        messages == <<"messages", "[">> \o serialize_all(elements, 1) \o <<"]">>
        model == <<"model", request.model>>
    IN  [url |-> <<"http://localhost:11434", "/api/chat">>,
         headers |-> << <<"Content-Type", "application/json">> >>,
         body |-> <<"{">>
                  \o (IF preserve_order THEN model \o messages
                      ELSE messages \o model)
                  \o <<"stream", "false", "}">>]

NoHttpConfig == [url |-> <<>>, headers |-> <<>>, body |-> <<>>]

PrepareInputs ==
    [op : {"ollama_input"}, fn : {"prepare_request"}, request : ChatRequests,
     preserve_order : BOOLEAN, host : {NoHttpConfig}, module : {NoHttpConfig}]

\* both sides prepare the same chat request
PrepareRequest ==
    /\ last_op.op = "ollama_input" /\ last_op.fn = "prepare_request"
    /\ last_op' = [last_op EXCEPT
                     !.op = "ollama_prepare_request",
                     !.host = host_prepare_request(last_op.request,
                                                   last_op.preserve_order),
                     !.module = prepare_request(last_op.request)]
    /\ UNCHANGED <<inst, next_id, instances, lock, task>>
    /\ UNCHANGED regvars
    /\ UNCHANGED handler

\* ------------------------------------------------- the message handler
\* request.messages: the length in bytes of each message's content
MessageLists == {<<>>, <<0>>, <<3>>, <<8>>, <<3, 13>>}

\* (text.len() / 4).max(1)
estimate_token_count(len) == IF len \div 4 >= 1 THEN len \div 4 ELSE 1

\* tokio's RwLock around the registry: write() needs no holder, read() no writer
RegistryCanWrite_ignores_writer(l) == l.readers = {}

RegistryCanWrite(l) == l.writer = 0 /\ l.readers = {}

RegistryCanRead(l) == l.writer = 0

\* llm_adapters.values().next()
get_default_llm_adapter ==
    IF \E p \in DOMAIN llm_adapters : llm_adapters[p] # NoWrapper
    THEN CHOOSE p \in DOMAIN llm_adapters : llm_adapters[p] # NoWrapper
    ELSE "none"

NoUsageReport == [present |-> FALSE, prompt_tokens |-> 0, completion_tokens |-> 0,
                  total_tokens |-> 0]

\* the response the handler returns, as the event of the step that returns it;
\* model holds the provider name the code formats into "{provider}_model"
HandlerResponse(t, success, model, finish_reason, usage) ==
    [Event("handler_response", t, 0, IF success THEN "Ok" ELSE "error")
       EXCEPT !.value = [success |-> success, model |-> model,
                         finish_reason |-> finish_reason, usage |-> usage]]

create_error_response(t) == HandlerResponse(t, FALSE, "error", "error", NoUsageReport)

\* the handler up to the call of adapter.send_message: it takes the registry's
\* write lock, looks the adapter up and picks the prompt; every early return
\* drops the guard again
HandlerBegin(t, messages) ==
    /\ reg.pc = "ready"
    /\ handler.req[t].pc = "idle"
    /\ RegistryCanWrite(handler.lock)
    /\ IF get_default_llm_adapter = "none"
          \/ get_llm_adapter("ollama") = NoWrapper
          \/ messages = <<>>
       THEN /\ last_op' = create_error_response(t)
            /\ UNCHANGED <<handler, task>>
       ELSE /\ handler' = [handler EXCEPT
                             !.lock.writer = t,
                             !.req[t] = [pc |-> "sending",
                                         prompt |-> messages[Len(messages)]]]
            /\ task' = [task EXCEPT ![t] = IdleTask(get_llm_adapter("ollama"))]
            /\ last_op' = Event("handler_send", t, 0, "Pending")
    /\ UNCHANGED <<inst, next_id, instances, lock>>
    /\ UNCHANGED regvars

\* the handler calls adapter.send_message once, right after the lookups
HandlerSend(t) ==
    /\ handler.req[t].pc = "sending"
    /\ last_op.op = "handler_send" /\ last_op.task = t
    /\ SmBegin(t)

\* send_message has returned: the handler builds the response and returns,
\* which drops the registry's write guard
HandlerEnd(t) ==
    /\ handler.req[t].pc = "sending"
    /\ last_op.op = "send_message" /\ last_op.task = t
    /\ task[t].pc = "idle"
    /\ last_op' =
          IF last_op.result = "Ok"
          THEN HandlerResponse(t, TRUE, task[t].w.provider, "stop",
                               [present |-> TRUE,
                                prompt_tokens |->
                                   estimate_token_count(handler.req[t].prompt),
                                completion_tokens |-> 0,
                                total_tokens |-> 0])
          ELSE create_error_response(t)
    /\ handler' = [handler EXCEPT !.lock.writer = 0,
                                  !.req[t] = [pc |-> "idle", prompt |-> 0]]
    /\ task' = [task EXCEPT ![t] = IdleTask(NoWrapper)]
    /\ UNCHANGED <<inst, next_id, instances, lock>>
    /\ UNCHANGED regvars

\* -------------------------------------------------------------- behaviour
Configs == [provider : ConfigProviders, version : ConfigVersions]

\* the instance, loader and runtime operations, called with exclusive access
Next ==
    \/ \E f \in BOOLEAN : NewInstance(f)
    \/ \E i \in Ids : Initialize(i)
    \/ \E i \in Ids, fn \in FunctionNames, a \in ArgKinds : CallDirect(i, fn, a)
    \/ \E i \in Ids : ShutdownInstance(i)
    \/ \E s \in Services, p \in DirectPaths, fs \in FileKinds : LoadAdapter(s, p, fs)
    \/ \E k \in Keys, fn \in FunctionNames, a \in ArgKinds : CallRuntime(k, fn, a)
    \/ RuntimeShutdown

Spec == Init /\ [][Next]_vars

\* the runtime loaded with adapters whose names contain the separator
NextKeys ==
    \/ \E s \in UnderscoreServices, p \in UnderscorePaths, fs \in FileKinds :
          LoadAdapter(s, p, fs)
    \/ \E k \in UnderscoreKeys, fn \in FunctionNames, a \in ArgKinds :
          CallRuntime(k, fn, a)
    \/ RuntimeShutdown

SpecKeys == Init /\ [][NextKeys]_vars

\* concurrent tasks, each with a wrapper of its own, sharing one runtime
NextWrappers ==
    \/ \E t \in Tasks, k \in Services, c \in Configs, d \in DataDirs, fs \in FileKinds :
          WrapperNew(t, k, c, d, fs)
    \/ RuntimeShutdown
    \/ \E t \in Tasks : SmBegin(t)
    \/ \E t \in Tasks : SmPrepared(t)
    \/ \E t \in Tasks, o \in TransportOutcomes : SmTransport(t, o)
    \/ \E t \in Tasks : SmParseBegin(t)
    \/ \E t \in Tasks : SmParsed(t)
    \/ \E t \in Tasks, op \in ReadOps : RdBegin(t, op)
    \/ \E t \in Tasks : RdEnd(t)

SpecWrappers == Init /\ [][NextWrappers]_vars

\* the registry from startup to teardown
NextRegistry ==
    \/ \E c \in RegConfigs : \E o \in IterationOrders(Len(c)) : InitializeBegin(c, o)
    \/ \E l \in ManifestKinds, v \in ManifestKinds, fs \in FileKinds :
          InitializeService(l, v, fs)
    \/ ShutdownLlmAdapters
    \/ ShutdownStorageAdapters
    \/ ShutdownRuntime

SpecRegistry == Init /\ [][NextRegistry]_vars

\* the Ollama module's parsing functions, each applied to any input
InitOllama ==
    /\ llm_adapters = [p \in RegProviders |-> NoWrapper]
    /\ storage_adapters = [p \in RegProviders |-> NoWrapper]
    /\ manifests = [p \in RegProviders |-> NoManifest]
    /\ reg = NewRegistry
    /\ handler = NoHandler
    /\ inst = [i \in Ids |-> NoInst]
    /\ next_id = 1
    /\ instances = [k \in Keys |-> 0]
    /\ lock = [writer |-> 0, readers |-> {}]
    /\ task = [t \in Tasks |-> IdleTask(NoWrapper)]
    /\ last_op \in OllamaInputs \cup PrepareInputs

NextOllama ==
    \/ ParseResponse
    \/ ParseStreamChunk
    \/ PrepareRequest

SpecOllama == InitOllama /\ [][NextOllama]_vars

\* the server: the registry is initialised from a config that declares at most
\* an llm service, then message requests arrive on concurrent tasks
HandlerConfigs == { c \in RegConfigs : \A i \in 1..Len(c) : c[i].service = "llm" }

NextHandler ==
    \/ \E c \in HandlerConfigs : \E o \in IterationOrders(Len(c)) : InitializeBegin(c, o)
    \/ \E l \in ManifestKinds, v \in ManifestKinds, fs \in FileKinds :
          InitializeService(l, v, fs)
    \/ \E t \in Tasks, m \in MessageLists : HandlerBegin(t, m)
    \/ \E t \in Tasks : HandlerSend(t)
    \/ \E t \in Tasks : SmPrepared(t)
    \/ \E t \in Tasks, o \in TransportOutcomes : SmTransport(t, o)
    \/ \E t \in Tasks : SmParseBegin(t)
    \/ \E t \in Tasks : SmParsed(t)
    \/ \E t \in Tasks : HandlerEnd(t)

SpecHandler == Init /\ [][NextHandler]_vars

TypeOK ==
    /\ next_id \in 1..(MaxInst + 1)
    /\ \A k \in Keys : instances[k] \in 0..MaxInst
    /\ lock.writer \in 0..NumTasks /\ lock.readers \subseteq Tasks

\* ------------------------------------------------------------- properties
\* the step just taken was a call_llm_function on instance i
CalledOn(ev, i) == ev.op = "call_llm_function" /\ ev.inst = i

\* C1: a call on an instance whose is_ready() is false returns
\* ServiceUnavailable with no value, whatever the function name and argument,
\* and leaves the instance (readiness, remaining fuel) as it was.
C1_NotReadyRejectsCall ==
    [][\A i \in Ids :
          (CalledOn(last_op', i) /\ ~is_ready(inst[i]))
             => /\ last_op'.result = "ServiceUnavailable"
                /\ last_op'.value = NoValue
                /\ inst'[i] = inst[i]]_vars

C1_Witness ==
    /\ last_op.op = "call_llm_function"
    /\ last_op.result = "ServiceUnavailable"
    /\ inst[last_op.inst].life = "live"
    /\ ~is_ready(inst[last_op.inst])
    /\ remaining_fuel(inst[last_op.inst]) = 0

\* C2: a ready instance has completed initialization (is_initialized set, a
\* fuel budget assigned); a freshly constructed instance is not ready, and a
\* failed initialization leaves the instance not ready.
C2_ReadyImpliesInitialized ==
    /\ \A i \in Ids :
          is_ready(inst[i]) => /\ inst[i].is_initialized
                               /\ remaining_fuel(inst[i]) \in {InitFuel, CallFuel}
    /\ last_op.op = "WasmInstance::new" => ~is_ready(inst[last_op.inst])
    /\ (last_op.op = "initialize" /\ last_op.result # "Ok")
          => ~is_ready(inst[last_op.inst])

C2_Witness ==
    /\ last_op.op = "initialize"
    /\ last_op.result = "InitializationFailed"
    /\ \E i \in Ids : is_ready(inst[i]) /\ inst[i].life = "live"

\* C3: a task whose send_message is in its transport phase (or between
\* transport and parse, or has returned) holds no guard of the runtime lock.
C3_NoLockDuringTransport ==
    \A t \in Tasks :
       task[t].pc \in {"sm_transport", "sm_wait_parse", "idle"}
          => lock.writer # t /\ t \notin lock.readers

C3_Witness ==
    \E t, u \in Tasks :
       /\ task[t].pc = "sm_transport"
       /\ lock.writer = u
       /\ task[u].pc = "sm_preparing"

\* a task is inside a call on an instance
InCall(t) == task[t].pc \in {"sm_preparing", "sm_parsing"}

\* C4: two tasks are never inside a call on the same instance, and a task
\* inside a call holds the write guard on a live instance.
C4_OneCallPerInstance ==
    /\ \A t, u \in Tasks :
          (t # u /\ InCall(t) /\ InCall(u)) => task[t].inst # task[u].inst
    /\ \A t \in Tasks :
          InCall(t) => lock.writer = t /\ inst[task[t].inst].life = "live"

C4_Witness ==
    \E t, u \in Tasks :
       /\ t # u
       /\ InCall(t)
       /\ task[u].pc = "sm_wait_parse"
       /\ task[u].w = task[t].w

\* C5: a ready instance stays ready for as long as it exists: no step leaves
\* a live instance with is_ready() false once it was true, and an instance
\* ceases to exist only by a shutdown or by being replaced in the collection.
C5_ReadyUntilShutdown ==
    [][\A i \in Ids :
          (inst[i].life = "live" /\ is_ready(inst[i]))
             => /\ is_ready(inst'[i])
                /\ inst'[i].life # "live"
                      => last_op'.op \in {"WasmInstance::shutdown",
                                          "runtime_shutdown", "load_adapter"}]_vars

C5_Witness ==
    /\ last_op.op = "call_llm_function"
    /\ last_op.fn = "parse_stream_chunk"
    /\ last_op.result = "ExecutionError"
    /\ inst[last_op.inst].owner = "runtime"
    /\ is_ready(inst[last_op.inst])

\* C6: the per-call quota is smaller than the initialization quota; the
\* remaining fuel never exceeds the initialization quota; the fuel becomes the
\* initialization quota only in the step that initializes the instance, which
\* happens once; every call on a ready instance sets the per-call quota.
C6_FuelQuotas ==
    [][/\ CallFuel < InitFuel
       /\ \A i \in Ids :
             /\ inst'[i].fuel <= InitFuel
             /\ (inst'[i].fuel = InitFuel /\ inst[i].fuel # InitFuel)
                   => ~inst[i].is_initialized /\ inst'[i].is_initialized
             /\ (inst[i].is_initialized /\ inst[i].life = "live")
                   => inst'[i].is_initialized
             /\ (CalledOn(last_op', i) /\ is_ready(inst[i]))
                   => remaining_fuel(inst'[i]) = CallFuel]_vars

C6_Witness ==
    /\ last_op.op = "call_llm_function"
    /\ last_op.result = "Ok"
    /\ remaining_fuel(inst[last_op.inst]) = CallFuel
    /\ \E j \in Ids : remaining_fuel(inst[j]) = InitFuel

\* C7: after a call that failed with ExecutionError the instance is still
\* ready, every next call starts with the per-call quota, and a next call
\* can succeed.
C7_FailedCallLeavesInstanceUsable ==
    (last_op.op = "call_llm_function" /\ last_op.result = "ExecutionError")
       => LET self == inst[last_op.inst]
          IN  /\ self.life = "live"
              /\ is_ready(self)
              /\ \A fn \in FunctionNames, a \in ArgKinds :
                    call_llm_function(self, fn, a).inst.fuel = CallFuel
              /\ call_llm_function(self, "prepare_request", "chat_request").result = "Ok"

C7_Witness ==
    /\ last_op.op = "call_llm_function"
    /\ last_op.fn = "parse_response"
    /\ last_op.result = "ExecutionError"

\* C8: a load of a module path that does not exist fails with
\* InitializationFailed and changes neither the collection nor any instance.
C8_MissingModuleFailsCleanly ==
    [][/\ \A p \in DirectPaths :
             load_module(p, "absent", RuntimeFuelEnabled).result = "InitializationFailed"
       /\ (last_op'.op = "load_adapter" /\ last_op'.fs = "absent")
             => /\ last_op'.result = "InitializationFailed"
                /\ instances' = instances
                /\ inst' = inst]_vars

C8_Witness ==
    /\ last_op.op = "load_adapter"
    /\ last_op.fs = "absent"
    /\ last_op.result = "InitializationFailed"
    /\ last_op.path = <<"data", "adapters", "llm", "ollama", "v1", "adapter.wasm">>
    /\ instances[instance_key("llm", "ollama")] # 0

\* C9: every instance in the runtime's collection is live, initialized and
\* ready, and a load that fails inserts nothing.
C9_StoredInstancesReady ==
    [][/\ \A k \in Keys :
             instances'[k] # 0
                => /\ inst'[instances'[k]].life = "live"
                   /\ inst'[instances'[k]].is_initialized
                   /\ is_ready(inst'[instances'[k]])
       /\ (last_op'.op = "load_adapter" /\ last_op'.result # "Ok")
             => instances' = instances]_vars

C9_Witness ==
    /\ last_op.op = "load_adapter"
    /\ last_op.result = "Ok"
    /\ \E k \in Keys : instances[k] = last_op.inst
    /\ is_ready(inst[last_op.inst])

\* C10: for a path .../adapters/<service>/<provider>/<version>/module the
\* loader records exactly (provider, version); for a path without the
\* `adapters` segment, or with fewer than the four segments
\* service/provider/version/module after it, the load fails with InvalidConfig.
C10_ExtractionContract ==
    (last_op.op = "load_adapter" /\ last_op.fs = "component")
       => LET p == last_op.path
              n == Len(p)
              a == Position(p, "adapters")
          IN  /\ (n >= 5 /\ p[n - 4] = "adapters")
                    => /\ last_op.result = "Ok"
                       /\ inst[last_op.inst].provider_name = p[n - 2]
                       /\ inst[last_op.inst].version = p[n - 1]
              /\ (a = 0 \/ n - a < 4) => last_op.result = "InvalidConfig"

\* C11: a successful load_adapter(service, path) whose path yields provider
\* P stores the newly constructed instance under (service, P) and touches no
\* other key; no instance is stored under two keys; the collection changes
\* only by a load or a shutdown, so each key holds its most recent load.
C11_LoadStoresLatest ==
    [][/\ (last_op'.op = "load_adapter" /\ last_op'.result = "Ok")
             => LET id == last_op'.inst
                    k == instance_key(last_op'.service,
                                      extract_metadata(last_op'.path).provider)
                IN  /\ id = next_id /\ inst[id].life = "free"
                    /\ instances'[k] = id
                    /\ \A k2 \in Keys \ {k} : instances'[k2] = instances[k2]
       /\ \A k1, k2 \in Keys :
             (k1 # k2 /\ instances'[k1] # 0) => instances'[k1] # instances'[k2]
       /\ last_op'.op \notin {"load_adapter", "runtime_shutdown"}
             => instances' = instances]_vars

C11_Witness ==
    /\ last_op.op = "load_adapter"
    /\ last_op.result = "Ok"
    /\ last_op.inst = 2
    /\ inst[1].life = "dropped"
    /\ get_instance(last_op.service, inst[2].provider_name) = 2

\* C12: every instance that has left the runtime's collection was shut down
\* first, also the one a later load of the same (service, provider) replaced.
C12_ShutdownBeforeDrop ==
    \A i \in Ids :
       (inst[i].owner = "runtime" /\ \A k \in Keys : instances[k] # i)
          => inst[i].life = "shutdown"

\* C15: when Runtime.shutdown() has returned the collection is empty, so
\* every lookup returns nothing; an instance that was shut down never
\* changes again, is never called and never re-enters the collection.
C15_ShutdownIsTerminal ==
    [][/\ last_op'.op = "runtime_shutdown"
             => \A s \in Services, p \in Segments : get_instance(s, p)' = 0
       /\ \A i \in Ids :
             inst[i].life = "shutdown"
                => /\ inst'[i] = inst[i]
                   /\ ~CalledOn(last_op', i)
                   /\ \A k \in Keys : instances'[k] # i]_vars

C15_Witness ==
    \E i, j \in Ids :
       /\ inst[i].owner = "runtime" /\ inst[i].life = "shutdown"
       /\ inst[j].owner = "runtime" /\ inst[j].life = "live"
       /\ inst[j].provider_name = inst[i].provider_name
       /\ \E k \in Keys : instances[k] = j

\* C14: Registry.shutdown() shuts down and removes every LLM wrapper and
\* every storage wrapper before the runtime: each loop empties its map and
\* shuts down what it held, and Runtime.shutdown() starts only when no
\* wrapper is registered in either map.
C14_AdaptersBeforeRuntime ==
    [][/\ last_op'.op = "shutdown_llm_adapters"
             => \A p \in RegProviders :
                   /\ llm_adapters'[p] = NoWrapper
                   /\ llm_adapters[p] # NoWrapper => <<"llm", p>> \in reg'.shut
       /\ last_op'.op = "shutdown_storage_adapters"
             => \A p \in RegProviders :
                   /\ storage_adapters'[p] = NoWrapper
                   /\ storage_adapters[p] # NoWrapper
                         => <<"storage", p>> \in reg'.shut
       /\ last_op'.op = "runtime_shutdown"
             => \A p \in RegProviders :
                   /\ llm_adapters[p] = NoWrapper
                   /\ storage_adapters[p] = NoWrapper]_vars

C14_Witness ==
    /\ reg.pc = "down"
    /\ \E p, q \in RegProviders : {<<"llm", p>>, <<"storage", q>>} \subseteq reg.shut
    /\ \E i, j \in Ids : i # j /\ inst[i].life = "shutdown" /\ inst[j].life = "shutdown"

\* C16: after a successful initialize_from_config the LLM map holds a
\* wrapper for provider p exactly when the configuration has an "llm"
\* service with provider p, and the storage map likewise for "storage"; a
\* registry never initialized holds nothing, and a provider that was not
\* configured is absent.
C16_AdaptersMatchConfig ==
    LET Configured(service, p) ==
            \E i \in 1..Len(reg.declared) :
               reg.declared[i].service = service /\ reg.declared[i].provider = p
    IN  /\ (reg.pc = "ready" /\ reg.result = "Ok")
              => \A p \in RegProviders \cup {"nonexistent"} :
                    /\ get_llm_adapter(p) # NoWrapper <=> Configured("llm", p)
                    /\ get_storage_adapter(p) # NoWrapper <=> Configured("storage", p)
        /\ reg.pc = "new"
              => \A p \in RegProviders \cup {"nonexistent"} :
                    get_llm_adapter(p) = NoWrapper /\ get_storage_adapter(p) = NoWrapper

C16_Witness ==
    /\ reg.pc = "ready" /\ reg.result = "Ok"
    /\ get_llm_adapter("ollama").provider = "ollama"
    /\ get_storage_adapter("json").provider = "json"
    /\ get_llm_adapter("json") = NoWrapper
    /\ get_llm_adapter("nonexistent") = NoWrapper

\* C17: the iteration for a service named neither "llm" nor "storage"
\* returns no error, adds no wrapper to either map, loads no instance into
\* the runtime, and leaves the remaining services to be processed.
C17_UnknownServiceSkipped ==
    [][(last_op'.op = "initialize_service"
           /\ last_op'.service \notin {"llm", "storage"})
          => /\ last_op'.result = "Ok"
             /\ reg'.result \in {"Ok", "none"}
             /\ llm_adapters' = llm_adapters
             /\ storage_adapters' = storage_adapters
             /\ inst' = inst /\ instances' = instances /\ next_id' = next_id
             /\ reg'.todo = Tail(reg.todo)
             /\ reg'.pc = IF Tail(reg.todo) = <<>> THEN "ready" ELSE "init"]_vars

C17_Witness ==
    /\ reg.pc = "ready"
    /\ Len(reg.done) = 3 /\ reg.done[1] = "tts"
    /\ \E p \in RegProviders : get_llm_adapter(p) # NoWrapper
    /\ \E p \in RegProviders : get_storage_adapter(p) # NoWrapper
    /\ \A k \in Keys : instances[k] # 0 => inst[instances[k]].provider_name # ""

\* C18: when the module of a service fails to load, initialize_from_config
\* returns the error of that load, registers no wrapper for the service, and
\* processes no further service: nothing that comes after it in the
\* iteration has a wrapper or an instance.
C18_FailFast ==
    [][/\ (last_op'.op = "initialize_service" /\ last_op'.result # "Ok")
             => /\ reg'.pc = "failed"
                /\ reg'.result = last_op'.result
                /\ last_op'.result =
                      load_module(last_op'.path, last_op'.fs,
                                  RuntimeFuelEnabled).result
                /\ llm_adapters' = llm_adapters
                /\ storage_adapters' = storage_adapters
                /\ inst' = inst /\ instances' = instances
       /\ reg.pc = "failed"
             => /\ last_op'.op # "initialize_service"
                /\ reg'.done = reg.done /\ next_id' = next_id
       /\ reg'.pc = "failed"
             => \A i \in 1..Len(reg'.todo) :
                   LET sc == reg'.todo[i]
                       adapters == IF sc.service = "llm" THEN llm_adapters'
                                   ELSE storage_adapters'
                   IN  sc.service \in {"llm", "storage"}
                          => /\ adapters[sc.provider].service_name # sc.service
                             /\ instances'[instance_key(sc.service,
                                                        sc.provider)] = 0]_vars

C18_Witness ==
    /\ reg.pc = "failed"
    /\ reg.result = "InitializationFailed"
    /\ reg.done = <<"storage", "llm">>
    /\ \E p \in RegProviders : get_storage_adapter(p) # NoWrapper
    /\ \A p \in RegProviders : get_llm_adapter(p) = NoWrapper
    /\ Len(reg.todo) = 2 /\ reg.todo[2].service = "tts"

\* C19: the services are processed in the order the configuration declares
\* them: the services processed so far are the first ones declared, in the
\* declared order.
C19_DeclaredOrder ==
    /\ Len(reg.done) <= Len(reg.declared)
    /\ \A i \in 1..Len(reg.done) : reg.done[i] = reg.declared[i].service

\* C20: the manifest recorded for the provider of a service is the one at
\* the latest path when that path yields a manifest, else the one at the
\* version-pinned path when that path yields one, and the default
\* synthesized from the configuration only when neither path yields one.
C20_ManifestResolution ==
    [][last_op'.op = "initialize_service"
          => LET sc == Head(reg.todo)
             IN  manifests'[sc.provider] =
                    IF reg'.latest = "valid" THEN LatestFile(sc.provider)
                    ELSE IF reg'.versioned = "valid"
                    THEN VersionedFile(sc.provider, sc.version)
                    ELSE default_from_config(sc.provider, sc.version)]_vars

\* the errors a request can end with
RequestErrors == {"ServiceUnavailable", "ExecutionError"}

\* the step just taken was taken by task t
StepOf(ev, t) == ev.task = t

\* C21: send_message fails with ExecutionError, and never succeeds, when the
\* prepare result lacks a url, headers or body, and when the provider
\* response body has no message.content or the parse result lacks it.
C21_MalformedFieldsFail ==
    [][\A t \in Tasks :
          /\ (StepOf(last_op', t) /\ task[t].pc = "sm_preparing"
                 /\ call_llm_function(inst[task[t].inst], "prepare_request",
                                      "chat_request").result = "Ok"
                 /\ \E f \in {"url", "headers", "body"} :
                       call_llm_function(inst[task[t].inst], "prepare_request",
                                         "chat_request").value[f] = "null")
                => last_op'.op = "send_message" /\ last_op'.result = "ExecutionError"
          /\ (StepOf(last_op', t) /\ task[t].pc = "sm_parsing"
                 /\ task[t].body # "body_with_content")
                => last_op'.op = "send_message" /\ last_op'.result = "ExecutionError"]_vars

\* C22: a wrapper operation whose instance is not in the runtime, or is in it
\* but not ready, returns ServiceUnavailable; it changes no instance and goes
\* on to no module call and no transport.
C22_UnavailableInstance ==
    [][\A t \in Tasks :
          LET w == task[t].w
              id == get_instance(w.service_name, w.provider)
              Unavailable == id = 0 \/ ~is_ready(inst[id])
          IN  (w # NoWrapper /\ StepOf(last_op', t) /\ Unavailable
                  /\ \/ task[t].pc \in {"sm_preparing", "sm_wait_parse", "rd_holding"}
                     \/ task[t].pc = "idle" /\ last_op'.op \in {"send_message",
                                                                "sm_prepare_call"})
                 => /\ last_op'.result = "ServiceUnavailable"
                    /\ last_op'.fn = "none"
                    /\ task'[t].pc = "idle"
                    /\ inst' = inst /\ instances' = instances]_vars

C22_Witness ==
    /\ last_op.op \in {"store", "retrieve", "delete", "exists", "list_keys"}
    /\ last_op.result = "ServiceUnavailable"
    /\ task[last_op.task].w.kind = "storage"
    /\ get_instance(task[last_op.task].w.service_name,
                    task[last_op.task].w.provider) = 0
    /\ \E t \in Tasks : task[t].w.kind = "llm" /\ task[t].pc = "sm_wait_parse"

\* C23: send_message returns ServiceUnavailable only when its instance is
\* not in the runtime or is not ready; a failed transport is not reported as
\* ServiceUnavailable.
C23_UnavailableOnlyWhenMissing ==
    [][(last_op'.op = "send_message" /\ last_op'.result = "ServiceUnavailable")
          => LET w == task[last_op'.task].w
                 id == get_instance(w.service_name, w.provider)
             IN  id = 0 \/ ~is_ready(inst[id])]_vars

\* C24: a request that fails, in whatever phase, leaves the keys of the
\* runtime's collection, the readiness of every instance and the registry's
\* maps as they were, releases the lock it held and leaves its wrapper idle,
\* so that the next request to any instance can start.
C24_FailedRequestIsLocal ==
    [][\A t \in Tasks :
          (StepOf(last_op', t) /\ task[t].w # NoWrapper
              /\ last_op'.op # "wrapper_new"
              /\ last_op'.result \in RequestErrors)
             => /\ instances' = instances
                /\ \A i \in Ids : is_ready(inst'[i]) = is_ready(inst[i])
                                     /\ inst'[i].life = inst[i].life
                /\ llm_adapters' = llm_adapters
                /\ storage_adapters' = storage_adapters
                /\ manifests' = manifests
                /\ task'[t] = IdleTask(task[t].w)
                /\ lock'.writer # t /\ t \notin lock'.readers
                /\ \A u \in Tasks \ {t} : task'[u] = task[u]]_vars

C24_Witness ==
    /\ last_op.op = "send_message"
    /\ last_op.fn = "parse_response"
    /\ last_op.result = "ExecutionError"
    /\ LockFree
    /\ task[last_op.task].pc = "idle"
    /\ is_ready(inst[last_op.inst])
    /\ get_instance(task[last_op.task].w.service_name,
                    task[last_op.task].w.provider) = last_op.inst
    /\ \E u \in Tasks : u # last_op.task /\ task[u].pc = "sm_transport"

\* C25: within one send_message the phases follow the order prepare_request,
\* transport, parse_response, none of them twice: the transport starts only
\* when prepare_request returned a url, headers and a body, parse_response
\* is called only on the body of a successful transport, and a failure in
\* any phase ends the request.
C25_PhaseOrder ==
    [][\A t \in Tasks :
          StepOf(last_op', t)
             => /\ task[t].pc = "sm_preparing"
                      => /\ task'[t].pc \in {"idle", "sm_transport"}
                         /\ task'[t].pc = "sm_transport"
                               => /\ last_op'.result = "Ok"
                                  /\ last_op'.fn = "prepare_request"
                                  /\ last_op'.value.url # "null"
                                  /\ last_op'.value.headers = "object"
                                  /\ last_op'.value.body # "null"
                /\ task[t].pc = "sm_transport"
                      => /\ task'[t].pc \in {"idle", "sm_wait_parse"}
                         /\ task'[t].pc = "sm_wait_parse"
                               => last_op'.result = "Ok" /\ task'[t].body \in BodyKinds
                /\ task[t].pc = "sm_wait_parse"
                      => /\ task'[t].pc \in {"idle", "sm_parsing"}
                         /\ task'[t].body = IF task'[t].pc = "idle" THEN "none"
                                            ELSE task[t].body
                /\ task[t].pc = "sm_parsing"
                      => task'[t].pc = "idle" /\ last_op'.fn = "parse_response"
                /\ (task[t].pc \in {"sm_preparing", "sm_transport", "sm_wait_parse",
                                    "sm_parsing"}
                       /\ last_op'.result \in RequestErrors)
                      => task'[t].pc = "idle" /\ last_op'.op = "send_message"
                /\ task'[t].pc \in {"sm_transport", "sm_wait_parse", "sm_parsing"}
                      => task[t].pc \in {"sm_preparing", "sm_transport",
                                         "sm_wait_parse"}]_vars

C25_Witness ==
    /\ last_op.op = "send_message"
    /\ last_op.fn = "parse_response"
    /\ last_op.result = "Ok"
    /\ last_op.value.content = "reply"
    /\ task[last_op.task].pc = "idle"

\* C26: a storage operation that succeeds on a ready instance has called the
\* module's function of the same name.
C26_StorageCallsThrough ==
    [][(last_op'.op \in {"store", "retrieve", "delete", "exists", "list_keys"}
           /\ last_op'.result = "Ok")
          => last_op'.fn = last_op'.op]_vars

\* C27: a call on a ready instance naming prepare_request, parse_response or
\* parse_stream_chunk is not rejected for its name: when it fails, the same
\* function succeeds on another argument.
C27_EntryPointsAccepted ==
    [][\A i \in Ids :
          (CalledOn(last_op', i) /\ is_ready(inst[i])
              /\ last_op'.fn \in {"prepare_request", "parse_response",
                                  "parse_stream_chunk"}
              /\ last_op'.result # "Ok")
             => \E a \in ArgKinds : llm_dispatch(last_op'.fn, a).result = "Ok"]_vars

\* the counts a parsed provider response or final chunk reports
ReportsCounts(ev) ==
    /\ ev.op \in {"ollama_parse_response", "ollama_parse_stream_chunk"}
    /\ ev.status_code = 200
    /\ IF ev.op = "ollama_parse_response"
       THEN deserialize_chat_response(ev.text, ev.payload)
       ELSE deserialize_stream_chunk(ev.text, ev.payload) /\ ev.payload.done = "true"
    /\ ev.payload.prompt_eval_count.kind = "u32"

\* C28: whenever the provider response carries counts, the module reports
\* usage with total_tokens equal to the integer sum of prompt_tokens and
\* completion_tokens, also when the sum does not fit 32 bits: the addition
\* neither wraps nor aborts.
C28_TotalIsSum ==
    ReportsCounts(last_op)
       => /\ last_op.result \in {"Ok", "Some"}
          /\ last_op.usage.present
          /\ u32_sum(last_op.usage.prompt_tokens, last_op.usage.completion_tokens)
                = [carry |-> 0, hi |-> last_op.usage.total_tokens.hi,
                   lo |-> last_op.usage.total_tokens.lo]

\* C29: a stream chunk that parses with done = true is final and has the
\* finish reason Stop; one that parses with done = false is not final and
\* has neither usage nor finish reason, whatever counts it carries.
C29_FinalOnlyWhenDone ==
    (last_op.op = "ollama_parse_stream_chunk" /\ last_op.result = "Some")
       => /\ last_op.payload.done = "true"
                => last_op.chunk.is_final /\ last_op.chunk.finish_reason = "Stop"
          /\ last_op.payload.done = "false"
                => /\ ~last_op.chunk.is_final
                   /\ ~last_op.chunk.usage.present
                   /\ last_op.chunk.finish_reason = "None"
          /\ last_op.payload.done \in {"true", "false"}

C29_Witness ==
    /\ last_op.op = "ollama_parse_stream_chunk"
    /\ last_op.result = "Some"
    /\ last_op.payload.done = "false"
    /\ last_op.payload.prompt_eval_count = [kind |-> "u32", n |-> U32Max]
    /\ last_op.payload.eval_count = [kind |-> "u32", n |-> U32Max]
    /\ ~last_op.chunk.usage.present

\* C30: parse_stream_chunk returns "no chunk" exactly for the empty chunk and
\* the chunks made of whitespace only; every other chunk yields a chunk or
\* an error.
C30_NoChunkIffBlank ==
    last_op.op = "ollama_parse_stream_chunk"
       => (last_op.result = "None"
              <=> \A i \in 1..Len(last_op.text) : last_op.text[i] \in Whitespace)

C30_Witness ==
    /\ last_op.op = "ollama_parse_stream_chunk"
    /\ last_op.result = "None"
    /\ Len(last_op.text) >= 2

\* C31: parse_response fails on the status exactly when the transport status
\* is not a success status; for every success status it parses the body,
\* with the outcome the body has under status 200.
C31_StatusErrorIffNotSuccess ==
    last_op.op = "ollama_parse_response"
       => IF is_success(last_op.status_code)
          THEN LET parsed == parse_response(200, last_op.text, last_op.payload,
                                            last_op.overflow_checks)
               IN  last_op.result = parsed.result /\ last_op.usage = parsed.usage
          ELSE last_op.result = "Err"

\* C32: for a success response parse_response reports the finish reason
\* Stop and a Usage made of the provider's counts, a missing count being
\* zero: a missing eval count gives completion_tokens = 0, a missing prompt
\* count gives prompt_tokens = 0.
C32_MissingCountsAreZero ==
    LET CountOf(c) == IF c.kind = "u32" THEN c.n ELSE U32Zero
    IN  (last_op.op = "ollama_parse_response" /\ last_op.result = "Ok")
           => /\ parse_response(last_op.status_code, last_op.text, last_op.payload,
                                last_op.overflow_checks).finish_reason = "Stop"
              /\ (last_op.payload.prompt_eval_count.kind = "u32"
                     \/ last_op.payload.eval_count.kind = "u32")
                    => /\ last_op.usage.present
                       /\ last_op.usage.prompt_tokens
                             = CountOf(last_op.payload.prompt_eval_count)
                       /\ last_op.usage.completion_tokens
                             = CountOf(last_op.payload.eval_count)

\* C33: a wrapper whose is_ready() is true has an instance in the runtime
\* under its (service, provider), and that instance is ready.
C33_WrapperReadyMeansInstanceReady ==
    \A t \in Tasks :
       (task[t].w # NoWrapper /\ wrapper_is_ready(task[t].w))
          => LET id == get_instance(task[t].w.service_name, task[t].w.provider)
             IN  id # 0 /\ is_ready(inst[id])

\* C35: get_model_info and the storage operations take the runtime's lock
\* for reading only and change neither the collection nor any instance;
\* while one of them holds the lock there is no writer, no send_message
\* module call, no load and no shutdown.
C35_ReadOpsShareTheRuntime ==
    [][/\ \A t \in Tasks :
             (StepOf(last_op', t)
                 /\ \/ task[t].pc = "rd_holding"
                    \/ task[t].pc = "idle" /\ last_op'.op \in ReadOps)
                => /\ inst' = inst /\ instances' = instances /\ next_id' = next_id
                   /\ lock.writer = 0 /\ lock'.writer = 0
       /\ lock'.readers # {}
             => lock'.writer = 0 /\ \A u \in Tasks : ~InCall(u)'
       /\ last_op'.op \in {"wrapper_new", "runtime_shutdown"}
             => lock.readers = {} /\ lock'.readers = {}]_vars

C35_Witness ==
    \E t, u \in Tasks :
       /\ t # u
       /\ {t, u} \subseteq lock.readers
       /\ task[t].pc = "rd_holding" /\ task[t].op = "store"
       /\ task[u].pc = "rd_holding" /\ task[u].op = "get_model_info"
       /\ lock.writer = 0

\* C36: after a wrapper is constructed for (service, config, data_dir) the
\* runtime holds the loaded instance under (service, config.provider), ready
\* and recording the configured provider and version, whatever the data_dir.
C36_WrapperFindsItsInstance ==
    [][(last_op'.op = "wrapper_new" /\ last_op'.result = "Ok")
          => LET w == task'[last_op'.task].w
                 id == instances'[instance_key(w.service_name, w.provider)]
             IN  /\ id = last_op'.inst
                 /\ is_ready(inst'[id])
                 /\ inst'[id].provider_name = w.provider
                 /\ inst'[id].version = w.version]_vars

\* C38: a send_message whose transport has ended looks its instance up
\* again: when the instance is gone the request ends with ServiceUnavailable
\* and without a module call, and otherwise parse_response runs on the
\* instance the runtime holds now, which is the new one after a reload.
C38_ParsePhaseLooksUpAgain ==
    [][\A t \in Tasks :
          (task[t].w # NoWrapper /\ StepOf(last_op', t))
             => LET id == get_instance(task[t].w.service_name, task[t].w.provider)
                IN  /\ task[t].pc = "sm_wait_parse"
                          => IF id = 0
                             THEN /\ last_op'.op = "send_message"
                                  /\ last_op'.result = "ServiceUnavailable"
                                  /\ last_op'.fn = "none"
                                  /\ task'[t].pc = "idle"
                                  /\ inst' = inst
                             ELSE /\ task'[t].pc = "sm_parsing"
                                  /\ task'[t].inst = id
                                  /\ inst[id].life = "live"
                    /\ task[t].pc = "sm_parsing"
                          => /\ last_op'.inst = id
                             /\ id # 0 /\ inst[id].life = "live"]_vars

C38_Witness ==
    \E t \in Tasks :
       /\ task[t].pc = "sm_wait_parse"
       /\ task[t].w.kind = "llm"
       /\ get_instance(task[t].w.service_name, task[t].w.provider) = 0
       /\ \E i \in Ids : inst[i].life = "shutdown" /\ inst[i].provider_name = task[t].w.provider
       /\ last_op.op = "sm_transport" /\ last_op.task = t

\* C37: loading an adapter for one (service, provider) pair leaves what
\* get_instance returns for every other pair as it was, also when the names
\* contain the separator `_`.
C37_KeysSeparatePairs ==
    [][(last_op'.op = "load_adapter" /\ last_op'.result = "Ok")
          => LET service == last_op'.service
                 provider == extract_metadata(last_op'.path).provider
             IN  \A s \in UnderscoreServices, p \in UnderscoreProviders :
                    <<s, p>> # <<service, provider>>
                       => get_instance(s, p)' = get_instance(s, p)]_vars

\* C34: whenever the message handler reports usage, the reported total_tokens
\* is the sum of the reported prompt_tokens and completion_tokens.
C34_TotalIsSumOfParts ==
    (last_op.op = "handler_response" /\ last_op.value.usage.present)
        => last_op.value.usage.total_tokens =
              last_op.value.usage.prompt_tokens
              + last_op.value.usage.completion_tokens

\* C39: a message request holds the registry's write lock from the adapter
\* lookup until send_message has returned, through every phase of send_message
\* and the whole transport call; so at most one request is in flight, and while
\* a transport call is pending neither a reader nor a writer of the registry
\* can proceed.
C39_HandlerHoldsRegistryLock ==
    /\ \A t \in Tasks :
          handler.req[t].pc = "sending"
              => handler.lock.writer = t /\ handler.lock.readers = {}
    /\ \A t, u \in Tasks :
          (handler.req[t].pc = "sending" /\ handler.req[u].pc = "sending") => t = u
    /\ \A t \in Tasks :
          task[t].pc # "idle"
              => /\ handler.req[t].pc = "sending"
                 /\ handler.lock.writer = t
    /\ \A t \in Tasks :
          task[t].pc = "sm_transport"
              => /\ ~RegistryCanRead(handler.lock)
                 /\ ~RegistryCanWrite(handler.lock)

\* a transport call is pending: the runtime's lock is released, the registry's
\* is still held by the request
C39_Witness ==
    \E t \in Tasks :
        /\ task[t].pc = "sm_transport"
        /\ handler.req[t].pc = "sending"
        /\ handler.lock.writer = t
        /\ LockFree

\* C40: for every chat request that carries only a model and role-tagged
\* messages (no sampling option, no streaming, no provider_params), the host's
\* prepare_request and the Ollama module's prepare_request produce the same
\* URL, the same headers and the same body.
C40_HostAndModuleAgree ==
    (/\ last_op.op = "ollama_prepare_request"
     /\ last_op.request.temperature = "none"
     /\ last_op.request.enable_streaming = "none"
     /\ last_op.request.provider_params = "none")
        => /\ last_op.host.url = last_op.module.url
           /\ last_op.host.headers = last_op.module.headers
           /\ last_op.host.body = last_op.module.body

====
